---- MODULE Spec2Model ----
(***************************************************************************)
(* Model of the safiri-sales point of sale: the Postgres schema and its    *)
(* row-level security policies (supabase/migrations/2025...sql) and the    *)
(* POS screen of the client (src/pages/POS.tsx).                           *)
(*                                                                         *)
(* Money is counted in cents (DECIMAL(10,2) columns); VAT rates are whole  *)
(* percents (the DECIMAL(5,2) values 0.00, 8.00, 16.00).  The client       *)
(* computes with JavaScript numbers; a VAT amount is kept as an exact      *)
(* fraction <<numerator, denominator>> of cents, and the database rounds   *)
(* it to a whole number of cents when it stores it in a DECIMAL(10,2)      *)
(* column.  Columns and fields that no operation reads (names, phone       *)
(* numbers, timestamps) are left out.                                      *)
(***************************************************************************)
EXTENDS Integers, Sequences, FiniteSets, TLC

VARIABLES
    auth_users,   \* auth.users: user id -> [raw_user_meta_data]
    profiles,     \* public.profiles: user id -> [full_name, store_id]
    user_roles,   \* public.user_roles: set of [user_id, role]
    products,     \* public.products: product id -> row
    customers,    \* public.customers: customer id -> row
    sales,        \* public.sales: set of rows
    sale_items,   \* public.sale_items: set of rows
    payments,     \* public.payments: set of rows
    now,          \* Date.now(), in milliseconds
    sess,         \* one POS screen per user: React state and handler locals
    api           \* the last request the backend served, and its outcome

vars == <<auth_users, profiles, user_roles, products, customers, sales,
          sale_items, payments, now, sess, api>>

dbvars == <<auth_users, profiles, user_roles, products, customers, sales,
            sale_items, payments>>

----------------------------------------------------------------------------
(* Bounds of the model *)

MaxClock == 1
MaxQty == 2
MaxCheckouts == 1
MaxRoleRows == 2
MaxSaleRows == 1

----------------------------------------------------------------------------
(* The universe of identifiers *)

NULL == "null"
Users == {"u1", "u2"}
Stores == {"s1", "s2"}
ProductIds == {"p1", "p2"}
CustomerIds == {"k1", "k2"}
Roles == {"admin", "manager", "cashier"}
PaymentMethods == {"mpesa", "cash", "card"}
SaleStatuses == {"completed", "voided", "pending"}
Callers == Users \cup {NULL}

----------------------------------------------------------------------------
(* Exact fractions, for the client's VAT arithmetic *)

RECURSIVE Gcd(_, _)
Gcd(a, b) == IF b = 0 THEN a ELSE Gcd(b, a % b)

Norm(q) ==
    LET g == Gcd(q[1], q[2])
    IN  IF g = 0 THEN <<0, 1>> ELSE <<q[1] \div g, q[2] \div g>>

QAdd(p, q) == Norm(<<p[1] * q[2] + q[1] * p[2], p[2] * q[2]>>)
QInt(n) == <<n, 1>>

\* a non-negative fraction stored in a DECIMAL(_,2) column: numeric rounding,
\* half away from zero
RoundCents(q) == (2 * q[1] + q[2]) \div (2 * q[2])

----------------------------------------------------------------------------
(* Row-level security: the policies of the migration, one operator each.   *)
(* uid is auth.uid() of the request (NULL for an anonymous one), row the   *)
(* row the policy is evaluated on.  A comparison with SQL NULL is never    *)
(* true.                                                                   *)

has_role(_user_id, _role) ==
    \E r \in user_roles : r.user_id = _user_id /\ r.role = _role

\* store_id IN (SELECT store_id FROM public.profiles WHERE id = auth.uid())
InOwnStore(uid, store_id) ==
    /\ uid \in DOMAIN profiles
    /\ store_id # NULL
    /\ profiles[uid].store_id # NULL
    /\ profiles[uid].store_id = store_id

IsAuthenticated(uid) == uid # NULL

Profiles_UsersCanViewAllProfiles(uid, row) == TRUE
Profiles_UsersCanUpdateOwnProfile(uid, row) == uid # NULL /\ row.id = uid

\* mutant: a user may manage the role rows that are about that user
UserRoles_OwnRowsManageable(uid, row) ==
    has_role(uid, "admin") \/ (uid # NULL /\ row.user_id = uid)

UserRoles_AdminsCanManageRoles(uid, row) == has_role(uid, "admin")
UserRoles_UsersCanViewOwnRoles(uid, row) == uid # NULL /\ row.user_id = uid

Products_UsersCanViewStoreProducts(uid, row) == InOwnStore(uid, row.store_id)
Products_ManagersAndAdminsCanManageProducts(uid, row) ==
    has_role(uid, "admin") \/ has_role(uid, "manager")

Customers_UsersCanViewStoreCustomers(uid, row) == InOwnStore(uid, row.store_id)
Customers_AllAuthenticatedUsersCanManageCustomers(uid, row) == IsAuthenticated(uid)

Sales_UsersCanViewStoreSales(uid, row) == InOwnStore(uid, row.store_id)
Sales_AllAuthenticatedUsersCanCreateSales(uid, row) == IsAuthenticated(uid)
\* mutant: the UPDATE policy only asks for a signed-in user
Sales_AnyUserCanVoidSales(uid, row) == uid # NULL

Sales_ManagersAndAdminsCanVoidSales(uid, row) ==
    has_role(uid, "admin") \/ has_role(uid, "manager")

\* sale_id IN (SELECT id FROM public.sales WHERE store_id IN (SELECT store_id
\* FROM public.profiles WHERE id = auth.uid()))
SaleInOwnStore(uid, sale_id) ==
    \E r \in sales : r.id = sale_id /\ InOwnStore(uid, r.store_id)

SaleItems_UsersCanViewSaleItems(uid, row) == SaleInOwnStore(uid, row.sale_id)
SaleItems_AllAuthenticatedUsersCanCreateSaleItems(uid, row) == IsAuthenticated(uid)
Payments_UsersCanViewPayments(uid, row) == SaleInOwnStore(uid, row.sale_id)
Payments_AllAuthenticatedUsersCanCreatePayments(uid, row) == IsAuthenticated(uid)

(* How Postgres combines them.  The policies are all permissive: a command *)
(* passes when one policy that applies to it passes, and is refused when   *)
(* none applies.  A FOR ALL policy applies to every command.  USING is     *)
(* evaluated on existing rows (SELECT, UPDATE, DELETE); WITH CHECK on new  *)
(* rows (INSERT, UPDATE), and a policy that states no WITH CHECK uses its  *)
(* USING expression for it.                                                *)

Using(table, cmd, uid, row) ==
    CASE table = "profiles" ->
            \/ cmd = "SELECT" /\ Profiles_UsersCanViewAllProfiles(uid, row)
            \/ cmd = "UPDATE" /\ Profiles_UsersCanUpdateOwnProfile(uid, row)
      [] table = "user_roles" ->
            \/ UserRoles_AdminsCanManageRoles(uid, row)
            \/ cmd = "SELECT" /\ UserRoles_UsersCanViewOwnRoles(uid, row)
      [] table = "products" ->
            \/ cmd = "SELECT" /\ Products_UsersCanViewStoreProducts(uid, row)
            \/ Products_ManagersAndAdminsCanManageProducts(uid, row)
      [] table = "customers" ->
            \/ cmd = "SELECT" /\ Customers_UsersCanViewStoreCustomers(uid, row)
            \/ Customers_AllAuthenticatedUsersCanManageCustomers(uid, row)
      [] table = "sales" ->
            \/ cmd = "SELECT" /\ Sales_UsersCanViewStoreSales(uid, row)
            \/ cmd = "UPDATE" /\ Sales_ManagersAndAdminsCanVoidSales(uid, row)
      [] table = "sale_items" ->
            cmd = "SELECT" /\ SaleItems_UsersCanViewSaleItems(uid, row)
      [] table = "payments" ->
            cmd = "SELECT" /\ Payments_UsersCanViewPayments(uid, row)
      [] OTHER -> FALSE

WithCheck(table, cmd, uid, row) ==
    CASE table = "profiles" ->
            cmd = "UPDATE" /\ Profiles_UsersCanUpdateOwnProfile(uid, row)
      [] table = "user_roles" -> UserRoles_AdminsCanManageRoles(uid, row)
      [] table = "products" -> Products_ManagersAndAdminsCanManageProducts(uid, row)
      [] table = "customers" ->
            Customers_AllAuthenticatedUsersCanManageCustomers(uid, row)
      [] table = "sales" ->
            \/ cmd = "INSERT" /\ Sales_AllAuthenticatedUsersCanCreateSales(uid, row)
            \/ cmd = "UPDATE" /\ Sales_ManagersAndAdminsCanVoidSales(uid, row)
      [] table = "sale_items" ->
            cmd = "INSERT" /\ SaleItems_AllAuthenticatedUsersCanCreateSaleItems(uid, row)
      [] table = "payments" ->
            cmd = "INSERT" /\ Payments_AllAuthenticatedUsersCanCreatePayments(uid, row)
      [] OTHER -> FALSE

\* the rows a SELECT returns to uid
CanSelect(table, uid, row) == Using(table, "SELECT", uid, row)
\* INSERT of row by uid passes
CanInsert(table, uid, row) == WithCheck(table, "INSERT", uid, row)
\* an UPDATE ... WHERE id = ... reaches row: it must pass the UPDATE policies
\* and, because the WHERE clause reads the row, the SELECT policies
CanUpdate(table, uid, row) ==
    Using(table, "UPDATE", uid, row) /\ Using(table, "SELECT", uid, row)
CanDelete(table, uid, row) ==
    Using(table, "DELETE", uid, row) /\ Using(table, "SELECT", uid, row)

----------------------------------------------------------------------------
(* POS.tsx: the cart and the totals.  A Product is a loaded row            *)
(* [id, selling_price, stock_quantity, vat_rate]; a CartItem adds          *)
(* quantity and line_total.  The cart is a sequence of CartItems.          *)

CartIds(cart) == {cart[i].id : i \in 1..Len(cart)}

CartItemOf(cart, id) == cart[CHOOSE i \in 1..Len(cart) : cart[i].id = id]

NewItem(product) ==
    [id |-> product.id, selling_price |-> product.selling_price,
     stock_quantity |-> product.stock_quantity, vat_rate |-> product.vat_rate,
     quantity |-> 1, line_total |-> product.selling_price]

Max0(n) == IF n < 0 THEN 0 ELSE n

updateQuantity(cart, productId, newQuantity) ==
    LET mapped == [i \in 1..Len(cart) |->
                     IF cart[i].id = productId
                     THEN [cart[i] EXCEPT
                             !.quantity = Max0(newQuantity),
                             !.line_total = cart[i].selling_price * Max0(newQuantity)]
                     ELSE cart[i]]
        keep(item) == item.quantity > 0
    IN  SelectSeq(mapped, keep)

removeFromCart(cart, productId) ==
    LET keep(item) == item.id # productId
    IN  SelectSeq(cart, keep)

\* whether addToCart refuses the product ("Not enough stock available")
addToCartRefused(cart, product) ==
    /\ product.id \in CartIds(cart)
    /\ CartItemOf(cart, product.id).quantity >= product.stock_quantity

addToCart(cart, product) ==
    IF product.id \in CartIds(cart)
    THEN IF CartItemOf(cart, product.id).quantity >= product.stock_quantity
         THEN cart
         ELSE updateQuantity(cart, product.id,
                             CartItemOf(cart, product.id).quantity + 1)
    ELSE Append(cart, NewItem(product))

\* mutant: the VAT of a line is taken on top of the price, not out of it
itemVatOnTop(item) == <<item.line_total * item.vat_rate, 100>>

itemVat(item) == <<item.line_total * item.vat_rate, 100 + item.vat_rate>>

RECURSIVE SumLineTotals(_)
SumLineTotals(cart) ==
    IF cart = <<>> THEN 0
    ELSE SumLineTotals(SubSeq(cart, 1, Len(cart) - 1)) + cart[Len(cart)].line_total

RECURSIVE SumItemVat(_)
SumItemVat(cart) ==
    IF cart = <<>> THEN QInt(0)
    ELSE QAdd(SumItemVat(SubSeq(cart, 1, Len(cart) - 1)), itemVat(cart[Len(cart)]))

calculateTotals(cart) ==
    [subtotal |-> SumLineTotals(cart),
     vatAmount |-> SumItemVat(cart),
     total |-> SumLineTotals(cart)]

----------------------------------------------------------------------------
(* The POS screen of one user: the React state of the component, the       *)
(* progress of its effect (fetchStoreAndProducts) and the locals of the    *)
(* handleCheckout call in flight.  handleCheckout is a closure: it works   *)
(* on the cart and storeId of the render it was created in (h.cart,        *)
(* h.storeId), whatever the state becomes while it awaits.  Its locals are *)
(* gone when it returns.  toast is the toast that the latest click on the  *)
(* screen, or the checkout it started, has raised (NULL when none).        *)

NoHandler ==
    [cart |-> <<>>, storeId |-> NULL, method |-> NULL, subtotal |-> 0,
     vatAmount |-> <<0, 1>>, total |-> 0, receiptNumber |-> 0, saleId |-> 0,
     i |-> 0]

InitSession ==
    [fetch |-> "none", storeId |-> NULL, products |-> <<>>, cart |-> <<>>,
     loading |-> FALSE, pc |-> "idle", h |-> NoHandler, toast |-> NULL, n |-> 0]

\* a products row as the select list "id, name, selling_price, stock_quantity,
\* vat_rate" returns it
Loaded(row) ==
    [id |-> row.id, selling_price |-> row.selling_price,
     stock_quantity |-> row.stock_quantity, vat_rate |-> row.vat_rate]

\* from("products").select(..).eq("store_id", storeId).eq("active", true), as
\* row-level security lets uid see it; a function product id -> Product
SelectProducts(uid, storeId) ==
    LET ids == {id \in DOMAIN products :
                  /\ CanSelect("products", uid, products[id])
                  /\ products[id].store_id = storeId
                  /\ products[id].active}
    IN  [id \in ids |-> Loaded(products[id])]

\* useEffect(.., [user]): the effect starts once the user is signed in
Mount(u) ==
    /\ u \in DOMAIN auth_users
    /\ sess[u].fetch = "none"
    /\ sess' = [sess EXCEPT ![u].fetch = "profile"]
    /\ UNCHANGED <<dbvars, now, api>>

\* the answer to from("profiles").select("store_id").eq("id", user.id).single()
FetchProfile(u) ==
    /\ sess[u].fetch = "profile"
    /\ \E ok \in BOOLEAN :
         LET profile == IF ok /\ u \in DOMAIN profiles
                              /\ CanSelect("profiles", u, [id |-> u])
                        THEN profiles[u] ELSE [store_id |-> NULL]
         IN  sess' = IF profile.store_id # NULL
                     THEN [sess EXCEPT ![u].storeId = profile.store_id,
                                       ![u].fetch = "products"]
                     ELSE [sess EXCEPT ![u].fetch = "done"]
    /\ UNCHANGED <<dbvars, now, api>>

\* the answer to the products query of the effect
FetchProducts(u) ==
    /\ sess[u].fetch = "products"
    /\ \E ok \in BOOLEAN :
         sess' = IF ok
                 THEN [sess EXCEPT ![u].products = SelectProducts(u, sess[u].storeId),
                                   ![u].fetch = "done"]
                 ELSE [sess EXCEPT ![u].fetch = "done"]
    /\ UNCHANGED <<dbvars, now, api>>

\* a click on a product button (disabled when the product shows no stock)
AddToCart(u, id) ==
    /\ id \in DOMAIN sess[u].products
    /\ sess[u].products[id].stock_quantity # 0
    /\ sess' = [sess EXCEPT
                  ![u].cart = addToCart(sess[u].cart, sess[u].products[id]),
                  ![u].toast = IF addToCartRefused(sess[u].cart, sess[u].products[id])
                               THEN "Not enough stock available"
                               ELSE NULL]
    /\ UNCHANGED <<dbvars, now, api>>

\* the cart's plus button: updateQuantity(item.id, item.quantity + 1)
PlusButton(u, id) ==
    /\ id \in CartIds(sess[u].cart)
    /\ CartItemOf(sess[u].cart, id).quantity < MaxQty
    /\ sess' = [sess EXCEPT ![u].cart =
                  updateQuantity(sess[u].cart, id,
                                 CartItemOf(sess[u].cart, id).quantity + 1),
                             ![u].toast = NULL]
    /\ UNCHANGED <<dbvars, now, api>>

\* the cart's minus button: updateQuantity(item.id, item.quantity - 1)
MinusButton(u, id) ==
    /\ id \in CartIds(sess[u].cart)
    /\ sess' = [sess EXCEPT ![u].cart =
                  updateQuantity(sess[u].cart, id,
                                 CartItemOf(sess[u].cart, id).quantity - 1),
                             ![u].toast = NULL]
    /\ UNCHANGED <<dbvars, now, api>>

\* the cart's trash button
RemoveButton(u, id) ==
    /\ id \in CartIds(sess[u].cart)
    /\ sess' = [sess EXCEPT ![u].cart = removeFromCart(sess[u].cart, id),
                             ![u].toast = NULL]
    /\ UNCHANGED <<dbvars, now, api>>

----------------------------------------------------------------------------
(* handleCheckout: one action per await.  Every request may also fail on   *)
(* its way (ok = FALSE): supabase-js then returns an error object.         *)

\* `RCP-${Date.now()}`
ReceiptNumber(t) == <<"RCP-", t>>

\* mutant: the column is declared without UNIQUE
Sales_ReceiptNumberNotChecked(receipt_number) == TRUE

\* receipt_number TEXT UNIQUE NOT NULL
Sales_ReceiptNumberUnique(receipt_number) ==
    \A r \in sales : r.receipt_number # receipt_number

\* id UUID PRIMARY KEY DEFAULT gen_random_uuid(): a fresh id
NewSaleId == Cardinality(sales) + 1

\* the row that from("sales").insert({...}) asks for, as the table stores it
SaleRow(u, h) ==
    [id |-> NewSaleId, receipt_number |-> h.receiptNumber, store_id |-> h.storeId,
     cashier_id |-> u, subtotal |-> h.subtotal,
     vat_amount |-> RoundCents(h.vatAmount), total_amount |-> h.total,
     status |-> "completed"]

\* whether the database takes the row: the policies for INSERT, those for
\* SELECT (the request ends in .select(), INSERT .. RETURNING), the UNIQUE
\* and foreign-key constraints of public.sales (the amounts of the model stay
\* far below the DECIMAL(10,2) limit of 99999999.99)
SaleInsertAccepted(uid, row) ==
    /\ CanInsert("sales", uid, row)
    /\ CanSelect("sales", uid, row)
    /\ Sales_ReceiptNumberUnique(row.receipt_number)
    /\ row.store_id \in Stores
    /\ row.cashier_id \in DOMAIN profiles

\* cart.map(item => ({sale_id: sale.id, product_id: item.id, ...}))
SaleItemRows(h) ==
    {[sale_id |-> h.saleId, pos |-> i, product_id |-> h.cart[i].id,
      quantity |-> h.cart[i].quantity, unit_price |-> h.cart[i].selling_price,
      vat_rate |-> h.cart[i].vat_rate, line_total |-> h.cart[i].line_total]
       : i \in 1..Len(h.cart)}

SaleItemsInsertAccepted(uid, rows) ==
    \A row \in rows :
        /\ CanInsert("sale_items", uid, row)
        /\ \E s \in sales : s.id = row.sale_id
        /\ row.product_id \in DOMAIN products

\* mutant: the payment is recorded net of VAT
PaymentRowNetOfVat(h) ==
    [id |-> Cardinality(payments) + 1, sale_id |-> h.saleId,
     payment_method |-> h.method, amount |-> h.total - RoundCents(h.vatAmount)]

PaymentRow(h) ==
    [id |-> Cardinality(payments) + 1, sale_id |-> h.saleId,
     payment_method |-> h.method, amount |-> h.total]

PaymentInsertAccepted(uid, row) ==
    /\ CanInsert("payments", uid, row)
    /\ \E s \in sales : s.id = row.sale_id
    /\ row.payment_method \in PaymentMethods

\* mutant: the update decrements the stock the table holds now
NewStockFromTable(item) == products[item.id].stock_quantity - item.quantity

\* the value the stock update of the loop writes for a cart item
NewStock(item) == item.stock_quantity - item.quantity

\* from("products").update({stock_quantity: v}).eq("id", id) by uid: the
\* table afterwards.  A row the policies hide from uid is left as it is, and
\* the request still answers without an error.
ProductsAfterStockUpdate(uid, id, v) ==
    IF /\ id \in DOMAIN products
       /\ CanUpdate("products", uid, products[id])
       /\ WithCheck("products", "UPDATE", uid,
                    [products[id] EXCEPT !.stock_quantity = v])
    THEN [products EXCEPT ![id].stock_quantity = v]
    ELSE products

\* mutant: the error of a request is not thrown; the handler goes on to its
\* next request
ErrorNotThrown(s) ==
    [s EXCEPT !.pc = IF s.pc = "insertSale" THEN "insertItems"
                     ELSE IF s.pc = "insertItems" THEN "insertPayment"
                     ELSE "updateStock",
              !.h.i = 1]

\* mutant: the catch block swallows the error without a toast
FailedSilently(s) ==
    [s EXCEPT !.loading = FALSE, !.pc = "idle", !.h = NoHandler]

\* catch (error) { toast.error("Failed to complete sale") } finally { setLoading(false) }
Failed(s) ==
    [s EXCEPT !.toast = "Failed to complete sale", !.loading = FALSE,
              !.pc = "idle", !.h = NoHandler]

\* the pay buttons: disabled={loading || cart.length === 0}
PayDisabled(s) == s.loading \/ Len(s.cart) = 0

\* the two guards handleCheckout starts with: the toast it returns with, or
\* NULL when it goes on to the sale
handleCheckoutRefusal(cart, storeId) ==
    IF Len(cart) = 0 THEN "Cart is empty"
    ELSE IF storeId = NULL THEN "Store not configured"
    ELSE NULL

\* a click on a pay button of the mounted screen: handleCheckout(paymentMethod)
\* up to its first await.  A disabled button takes no click.
HandleCheckout(u, paymentMethod) ==
    /\ sess[u].fetch # "none"
    /\ ~PayDisabled(sess[u])
    /\ IF handleCheckoutRefusal(sess[u].cart, sess[u].storeId) # NULL
       THEN sess' = [sess EXCEPT ![u].toast =
                       handleCheckoutRefusal(sess[u].cart, sess[u].storeId)]
       ELSE /\ sess[u].n < MaxCheckouts
            /\ sess' = [sess EXCEPT
                 ![u].loading = TRUE,
                 ![u].toast = NULL,
                 ![u].pc = "insertSale",
                 ![u].n = sess[u].n + 1,
                 ![u].h = [cart |-> sess[u].cart,
                           storeId |-> sess[u].storeId,
                           method |-> paymentMethod,
                           subtotal |-> calculateTotals(sess[u].cart).subtotal,
                           vatAmount |-> calculateTotals(sess[u].cart).vatAmount,
                           total |-> calculateTotals(sess[u].cart).total,
                           receiptNumber |-> ReceiptNumber(now),
                           saleId |-> 0,
                           i |-> 0]]
    /\ UNCHANGED <<dbvars, now, api>>

\* the answer to from("sales").insert({...}).select().single()
InsertSale(u) ==
    /\ sess[u].pc = "insertSale"
    /\ \E ok \in BOOLEAN :
         LET row == SaleRow(u, sess[u].h)
         IN  IF ok /\ SaleInsertAccepted(u, row)
             THEN /\ sales' = sales \cup {row}
                  /\ sess' = [sess EXCEPT ![u].h.saleId = row.id,
                                          ![u].pc = "insertItems"]
             ELSE /\ sales' = sales
                  /\ sess' = [sess EXCEPT ![u] = Failed(sess[u])]
    /\ UNCHANGED <<auth_users, profiles, user_roles, products, customers,
                   sale_items, payments, now, api>>

\* the answer to from("sale_items").insert(saleItems): one multi-row insert
InsertItems(u) ==
    /\ sess[u].pc = "insertItems"
    /\ \E ok \in BOOLEAN :
         LET rows == SaleItemRows(sess[u].h)
         IN  IF ok /\ SaleItemsInsertAccepted(u, rows)
             THEN /\ sale_items' = sale_items \cup rows
                  /\ sess' = [sess EXCEPT ![u].pc = "insertPayment"]
             ELSE /\ sale_items' = sale_items
                  /\ sess' = [sess EXCEPT ![u] = Failed(sess[u])]
    /\ UNCHANGED <<auth_users, profiles, user_roles, products, customers,
                   sales, payments, now, api>>

\* the answer to from("payments").insert({...})
InsertPayment(u) ==
    /\ sess[u].pc = "insertPayment"
    /\ \E ok \in BOOLEAN :
         LET row == PaymentRow(sess[u].h)
         IN  IF ok /\ PaymentInsertAccepted(u, row)
             THEN /\ payments' = payments \cup {row}
                  /\ sess' = [sess EXCEPT ![u].pc = "updateStock", ![u].h.i = 1]
             ELSE /\ payments' = payments
                  /\ sess' = [sess EXCEPT ![u] = Failed(sess[u])]
    /\ UNCHANGED <<auth_users, profiles, user_roles, products, customers,
                   sales, sale_items, now, api>>

\* the answer to the stock update of cart item h.i; its result is not looked
\* at.  After the last one: toast.success, setCart([]), and the refresh query
\* is sent.
UpdateStock(u) ==
    /\ sess[u].pc = "updateStock"
    /\ LET h == sess[u].h
           item == h.cart[h.i]
       IN  /\ \E ok \in BOOLEAN :
                products' = IF ok
                            THEN ProductsAfterStockUpdate(u, item.id, NewStock(item))
                            ELSE products
           /\ sess' = IF h.i < Len(h.cart)
                      THEN [sess EXCEPT ![u].h.i = h.i + 1]
                      ELSE [sess EXCEPT ![u].h.i = h.i + 1,
                                        ![u].toast = "Sale completed!",
                                        ![u].cart = <<>>,
                                        ![u].pc = "refresh"]
    /\ UNCHANGED <<auth_users, profiles, user_roles, customers, sales,
                   sale_items, payments, now, api>>

\* the answer to the refresh query, then finally { setLoading(false) }
Refresh(u) ==
    /\ sess[u].pc = "refresh"
    /\ \E ok \in BOOLEAN :
         sess' = IF ok
                 THEN [sess EXCEPT ![u].products = SelectProducts(u, sess[u].h.storeId),
                                   ![u].loading = FALSE, ![u].pc = "idle",
                                   ![u].h = NoHandler]
                 ELSE [sess EXCEPT ![u].loading = FALSE, ![u].pc = "idle",
                                   ![u].h = NoHandler]
    /\ UNCHANGED <<dbvars, now, api>>

\* time passes
Tick ==
    /\ now < MaxClock
    /\ now' = now + 1
    /\ UNCHANGED <<dbvars, sess, api>>

----------------------------------------------------------------------------
(* Sign-up and the profile *)

\* COALESCE(NEW.raw_user_meta_data->>'full_name', 'User')
FullNameOf(raw_user_meta_data) ==
    IF raw_user_meta_data.full_name # NULL
    THEN raw_user_meta_data.full_name ELSE "User"

\* mutant: the trigger ignores the metadata
NewProfileNamedUser(raw_user_meta_data) == [full_name |-> "User", store_id |-> NULL]

\* handle_new_user(): the row the trigger inserts; store_id is not in its
\* column list and the column has no default
NewProfile(raw_user_meta_data) ==
    [full_name |-> FullNameOf(raw_user_meta_data), store_id |-> NULL]

Metas == {[full_name |-> NULL], [full_name |-> "Asha"]}

\* an insert into auth.users, and the trigger on_auth_user_created with it
SignUp(u, meta) ==
    /\ u \notin DOMAIN auth_users
    /\ auth_users' = [id \in DOMAIN auth_users \cup {u} |->
                        IF id = u THEN [raw_user_meta_data |-> meta]
                        ELSE auth_users[id]]
    /\ profiles' = [id \in DOMAIN profiles \cup {u} |->
                      IF id = u THEN NewProfile(meta) ELSE profiles[id]]
    /\ UNCHANGED <<user_roles, products, customers, sales, sale_items,
                   payments, now, sess, api>>

\* update public.profiles set store_id = .. where id = .. , asked by uid
ProfilesAfterUpdate(uid, id, store_id) ==
    IF /\ id \in DOMAIN profiles
       /\ CanUpdate("profiles", uid, [id |-> id])
       /\ WithCheck("profiles", "UPDATE", uid, [id |-> id])
    THEN [profiles EXCEPT ![id].store_id = store_id]
    ELSE profiles

\* a user's request to set the store of a profile
UpdateProfile(uid, id, store_id) ==
    /\ uid \in DOMAIN auth_users
    /\ profiles' = ProfilesAfterUpdate(uid, id, store_id)
    /\ UNCHANGED <<auth_users, user_roles, products, customers, sales,
                   sale_items, payments, now, sess, api>>

----------------------------------------------------------------------------
(* SpecRLS: the backend as any client can address it through the REST API, *)
(* whatever the application's screens do: every caller (a user or an       *)
(* anonymous client) may ask for any command on the rows of user_roles,    *)
(* products, customers and sales, and row-level security decides.  api     *)
(* records the request served last: who asked for what, the rows a SELECT  *)
(* returned, and whether a write changed the table.                        *)

Request(op, table, uid, rows, changed) ==
    [op |-> op, table |-> table, uid |-> uid, rows |-> rows, changed |-> changed]

RoleRow(u, r) == [user_id |-> u, role |-> r]
Customer(id, store_id) == [id |-> id, store_id |-> store_id]

ProductRows == {products[id] : id \in DOMAIN products}
CustomerRows == {customers[id] : id \in DOMAIN customers}

TableRows(table) ==
    CASE table = "user_roles" -> user_roles
      [] table = "products" -> ProductRows
      [] table = "customers" -> CustomerRows
      [] table = "sales" -> sales

\* select * from <table>, asked by uid
ApiSelect(uid, table) ==
    /\ api' = Request("SELECT", table, uid,
                      {row \in TableRows(table) : CanSelect(table, uid, row)}, FALSE)
    /\ UNCHANGED <<dbvars, now, sess>>

\* insert into user_roles (user_id, role), asked by uid
ApiInsertRole(uid, u, r) ==
    /\ Cardinality(user_roles) < MaxRoleRows
    /\ user_roles' = IF CanInsert("user_roles", uid, RoleRow(u, r))
                     THEN user_roles \cup {RoleRow(u, r)} ELSE user_roles
    /\ api' = Request("INSERT", "user_roles", uid, {}, user_roles' # user_roles)
    /\ UNCHANGED <<auth_users, profiles, products, customers, sales, sale_items,
                   payments, now, sess>>

\* UNIQUE (user_id, role): the table takes row in the place of replaced
UserRoles_UserIdRoleUnique(row, replaced) ==
    row \notin user_roles \ {replaced}

\* update user_roles set role = r where user_id = u and role = old; a
\* statement that breaks the UNIQUE constraint is refused and changes nothing
ApiUpdateRole(uid, u, old, r) ==
    /\ RoleRow(u, old) \in user_roles
    /\ user_roles' = IF /\ CanUpdate("user_roles", uid, RoleRow(u, old))
                        /\ WithCheck("user_roles", "UPDATE", uid, RoleRow(u, r))
                        /\ UserRoles_UserIdRoleUnique(RoleRow(u, r), RoleRow(u, old))
                     THEN (user_roles \ {RoleRow(u, old)}) \cup {RoleRow(u, r)}
                     ELSE user_roles
    /\ api' = Request("UPDATE", "user_roles", uid, {}, user_roles' # user_roles)
    /\ UNCHANGED <<auth_users, profiles, products, customers, sales, sale_items,
                   payments, now, sess>>

\* delete from user_roles where user_id = u and role = r
ApiDeleteRole(uid, u, r) ==
    /\ RoleRow(u, r) \in user_roles
    /\ user_roles' = IF CanDelete("user_roles", uid, RoleRow(u, r))
                     THEN user_roles \ {RoleRow(u, r)} ELSE user_roles
    /\ api' = Request("DELETE", "user_roles", uid, {}, user_roles' # user_roles)
    /\ UNCHANGED <<auth_users, profiles, products, customers, sales, sale_items,
                   payments, now, sess>>

\* insert into products, asked by uid
ApiInsertProduct(uid, row) ==
    /\ row.id \notin DOMAIN products
    /\ products' = IF CanInsert("products", uid, row)
                   THEN [id \in DOMAIN products \cup {row.id} |->
                           IF id = row.id THEN row ELSE products[id]]
                   ELSE products
    /\ api' = Request("INSERT", "products", uid, {}, products' # products)
    /\ UNCHANGED <<auth_users, profiles, user_roles, customers, sales, sale_items,
                   payments, now, sess>>

\* update products set stock_quantity = v where id = .., asked by uid
ApiUpdateProduct(uid, id, v) ==
    /\ id \in DOMAIN products
    /\ products' = ProductsAfterStockUpdate(uid, id, v)
    /\ api' = Request("UPDATE", "products", uid, {}, products' # products)
    /\ UNCHANGED <<auth_users, profiles, user_roles, customers, sales, sale_items,
                   payments, now, sess>>

\* delete from products where id = .., asked by uid
ApiDeleteProduct(uid, id) ==
    /\ id \in DOMAIN products
    /\ products' = IF /\ CanDelete("products", uid, products[id])
                      /\ \A si \in sale_items : si.product_id # id
                   THEN [i \in DOMAIN products \ {id} |-> products[i]]
                   ELSE products
    /\ api' = Request("DELETE", "products", uid, {}, products' # products)
    /\ UNCHANGED <<auth_users, profiles, user_roles, customers, sales, sale_items,
                   payments, now, sess>>

\* insert into sales, asked by uid (without RETURNING)
ApiInsertSale(uid, row) ==
    /\ Cardinality(sales) < MaxSaleRows
    /\ sales' = IF /\ CanInsert("sales", uid, row)
                   /\ Sales_ReceiptNumberUnique(row.receipt_number)
                   /\ row.store_id \in Stores
                   /\ row.cashier_id \in DOMAIN profiles
                THEN sales \cup {row} ELSE sales
    /\ api' = Request("INSERT", "sales", uid, {}, sales' # sales)
    /\ UNCHANGED <<auth_users, profiles, user_roles, products, customers,
                   sale_items, payments, now, sess>>

\* update sales set status = .. where id = .., asked by uid
SalesAfterUpdate(uid, id, status) ==
    {IF /\ s.id = id
        /\ CanUpdate("sales", uid, s)
        /\ WithCheck("sales", "UPDATE", uid, [s EXCEPT !.status = status])
     THEN [s EXCEPT !.status = status] ELSE s : s \in sales}

ApiUpdateSale(uid, id, status) ==
    /\ \E s \in sales : s.id = id
    /\ sales' = SalesAfterUpdate(uid, id, status)
    /\ api' = Request("UPDATE", "sales", uid, {}, sales' # sales)
    /\ UNCHANGED <<auth_users, profiles, user_roles, products, customers,
                   sale_items, payments, now, sess>>

\* delete from sales where id = .., asked by uid; sale_items and payments
\* reference sales ON DELETE CASCADE
SalesAfterDelete(uid, id) ==
    {s \in sales : ~(s.id = id /\ CanDelete("sales", uid, s))}

ApiDeleteSale(uid, id) ==
    /\ \E s \in sales : s.id = id
    /\ sales' = SalesAfterDelete(uid, id)
    /\ sale_items' = {si \in sale_items : \E s \in sales' : s.id = si.sale_id}
    /\ payments' = {pm \in payments : \E s \in sales' : s.id = pm.sale_id}
    /\ api' = Request("DELETE", "sales", uid, {}, sales' # sales)
    /\ UNCHANGED <<auth_users, profiles, user_roles, products, customers,
                   now, sess>>

\* update profiles set store_id = .. where id = .., asked by uid
ApiUpdateProfile(uid, id, store_id) ==
    /\ id \in DOMAIN profiles
    /\ profiles' = ProfilesAfterUpdate(uid, id, store_id)
    /\ api' = Request("UPDATE", "profiles", uid, {}, profiles' # profiles)
    /\ UNCHANGED <<auth_users, user_roles, products, customers, sales,
                   sale_items, payments, now, sess>>

----------------------------------------------------------------------------
(* Spec: the POS screens of two users of store s1, which sells one product *)
(* (p2 belongs to store s2).  u1 is a manager; u2 a manager or a cashier.  *)

NoRequest == [op |-> NULL]

Product(id, store_id, selling_price, stock_quantity, vat_rate) ==
    [id |-> id, store_id |-> store_id, selling_price |-> selling_price,
     stock_quantity |-> stock_quantity, vat_rate |-> vat_rate, active |-> TRUE]

Init ==
    /\ auth_users = [u \in Users |-> [raw_user_meta_data |-> [full_name |-> NULL]]]
    /\ profiles = [u \in Users |-> [full_name |-> "User", store_id |-> "s1"]]
    /\ \E r \in {"manager", "cashier"} :
         user_roles = {[user_id |-> "u1", role |-> "manager"],
                       [user_id |-> "u2", role |-> r]}
    /\ products = [id \in ProductIds |->
                     IF id = "p1" THEN Product("p1", "s1", 1000, 2, 16)
                                  ELSE Product("p2", "s2", 550, 1, 8)]
    /\ customers = <<>>
    /\ sales = {}
    /\ sale_items = {}
    /\ payments = {}
    /\ now = 0
    /\ sess = [u \in Users |-> InitSession]
    /\ api = NoRequest

\* what a user does on the POS screen, and the answers to its requests;
\* methods are the payment buttons the user presses
Screen(u, methods) ==
    \/ Mount(u)
    \/ FetchProfile(u)
    \/ FetchProducts(u)
    \/ \E id \in ProductIds : AddToCart(u, id)
    \/ \E id \in ProductIds : PlusButton(u, id)
    \/ \E id \in ProductIds : MinusButton(u, id)
    \/ \E id \in ProductIds : RemoveButton(u, id)
    \/ \E m \in methods : HandleCheckout(u, m)
    \/ InsertSale(u)
    \/ InsertItems(u)
    \/ InsertPayment(u)
    \/ UpdateStock(u)
    \/ Refresh(u)

Next ==
    \/ \E u \in Users : Screen(u, {"mpesa", "cash"})
    \/ Tick

Spec == Init /\ [][Next]_vars

----------------------------------------------------------------------------
(* SpecOne: one user from sign-up on.  The user signs up, sets the store   *)
(* of the own profile, and works on the POS screen of a store that sells   *)
(* two products, whose prices and VAT rates are drawn in InitOne.          *)

VatRates == {0, 8, 16}

InitOne ==
    /\ auth_users = <<>>
    /\ profiles = <<>>
    /\ user_roles = {}
    /\ \E v1 \in VatRates, v2 \in VatRates :
         /\ v1 >= v2
         /\ products = [id \in ProductIds |->
                          IF id = "p1" THEN Product("p1", "s1", 1000, 2, v1)
                                       ELSE Product("p2", "s1", 550, 1, v2)]
    /\ customers = <<>>
    /\ sales = {}
    /\ sale_items = {}
    /\ payments = {}
    /\ now = 0
    /\ sess = [u \in Users |-> InitSession]
    /\ api = NoRequest

NextOne ==
    \/ \E meta \in Metas : SignUp("u1", meta)
    \/ \E id \in Users : UpdateProfile("u1", id, "s1")
    \/ Screen("u1", PaymentMethods)

SpecOne == InitOne /\ [][NextOne]_vars

----------------------------------------------------------------------------
(* SpecRLS: two users and an anonymous client against the REST API.  Store *)
(* s1 has product p1 and customer k1, store s2 has p2 and k2.  The roles   *)
(* the users start with and the store of u2 are drawn in InitRLS.          *)

RlsProduct(id) ==
    IF id = "p1" THEN Product("p1", "s1", 1000, 2, 16)
                 ELSE Product("p2", "s2", 550, 1, 8)

ApiSaleRow(store_id, cashier_id) ==
    [id |-> NewSaleId, receipt_number |-> ReceiptNumber(now), store_id |-> store_id,
     cashier_id |-> cashier_id, subtotal |-> 1000, vat_amount |-> 138,
     total_amount |-> 1000, status |-> "completed"]

InitRLS ==
    /\ auth_users = [u \in Users |-> [raw_user_meta_data |-> [full_name |-> NULL]]]
    /\ \E st \in Stores \cup {NULL} :
         profiles = [u \in Users |->
                       [full_name |-> "User",
                        store_id |-> IF u = "u1" THEN "s1" ELSE st]]
    /\ \E rs \in SUBSET {RoleRow(u, r) : u \in Users, r \in Roles} :
         /\ Cardinality(rs) <= MaxRoleRows
         /\ user_roles = rs
    /\ products = [id \in ProductIds |-> RlsProduct(id)]
    /\ customers = [id \in CustomerIds |->
                      Customer(id, IF id = "k1" THEN "s1" ELSE "s2")]
    /\ sales = {}
    /\ sale_items = {}
    /\ payments = {}
    /\ now = 0
    /\ sess = [u \in Users |-> InitSession]
    /\ api = NoRequest

\* The requests tried: any caller reads any table and writes any role row;
\* p1 is updated, p2 deleted and inserted again; a sale of either store is
\* inserted and its status set; a profile is moved to store s2.
NextRLS ==
    \/ \E uid \in Callers, t \in {"user_roles", "products", "customers", "sales"} :
         ApiSelect(uid, t)
    \/ \E uid \in Callers, u \in Users, r \in Roles : ApiInsertRole(uid, u, r)
    \/ \E uid \in Callers, u \in Users, old \in Roles, r \in Roles :
         ApiUpdateRole(uid, u, old, r)
    \/ \E uid \in Callers, u \in Users, r \in Roles : ApiDeleteRole(uid, u, r)
    \/ \E uid \in Callers : ApiInsertProduct(uid, RlsProduct("p2"))
    \/ \E uid \in Callers : ApiUpdateProduct(uid, "p1", 0)
    \/ \E uid \in Callers : ApiDeleteProduct(uid, "p2")
    \/ \E uid \in Callers, s \in Stores : ApiInsertSale(uid, ApiSaleRow(s, "u1"))
    \/ \E uid \in Callers, id \in 1..MaxSaleRows, st \in {"completed", "voided"} :
         ApiUpdateSale(uid, id, st)
    \/ \E uid \in Callers, id \in 1..MaxSaleRows : ApiDeleteSale(uid, id)
    \/ \E uid \in Callers, id \in Users : ApiUpdateProfile(uid, id, "s2")

SpecRLS == InitRLS /\ [][NextRLS]_vars

----------------------------------------------------------------------------
(* SpecTill: one signed-in user at the POS screen of store s1, which sells *)
(* two products: p1 with two pieces in stock, p2 with one.  The role of    *)
(* the user (manager or cashier) is drawn in InitTill.                     *)

InitTill ==
    /\ auth_users = [u \in {"u1"} |-> [raw_user_meta_data |-> [full_name |-> NULL]]]
    /\ profiles = [u \in {"u1"} |-> [full_name |-> "User", store_id |-> "s1"]]
    /\ \E r \in {"manager", "cashier"} : user_roles = {RoleRow("u1", r)}
    /\ products = [id \in ProductIds |->
                     IF id = "p1" THEN Product("p1", "s1", 1000, 2, 16)
                                  ELSE Product("p2", "s1", 550, 1, 8)]
    /\ customers = <<>>
    /\ sales = {}
    /\ sale_items = {}
    /\ payments = {}
    /\ now = 0
    /\ sess = [u \in Users |-> InitSession]
    /\ api = NoRequest

NextTill == Screen("u1", {"cash"})

SpecTill == InitTill /\ [][NextTill]_vars

----------------------------------------------------------------------------
(* Claims *)

\* the roles uid holds
RolesOf(uid) == {r.role : r \in {x \in user_roles : x.user_id = uid}}

IsManagerOrAdmin(uid) == has_role(uid, "admin") \/ has_role(uid, "manager")

\* the checkouts that have inserted their sales row and not yet returned
SaleInserted(u) ==
    sess[u].pc \in {"insertItems", "insertPayment", "updateStock", "refresh"}

\* handleCheckout of u has reported success and not yet returned
ReportedSuccess(u) == sess[u].pc = "refresh"

\* C1: no two rows of sales share a receipt_number, in any interleaving of
\* the checkouts of the two screens; a checkout that has inserted its sale (so
\* every checkout that reports success) has a row of its own carrying its
\* receipt number, and no other checkout in flight holds a sale under the
\* same number.
C1_ReceiptNumbersUnique ==
    /\ \A r1 \in sales, r2 \in sales :
         r1.receipt_number = r2.receipt_number => r1 = r2
    /\ \A u \in Users :
         SaleInserted(u) =>
           /\ \E r \in sales : /\ r.id = sess[u].h.saleId
                               /\ r.cashier_id = u
                               /\ r.receipt_number = sess[u].h.receiptNumber
           /\ \A v \in Users \ {u} :
                SaleInserted(v) =>
                  sess[v].h.receiptNumber # sess[u].h.receiptNumber

\* C1 witness: two checkouts started in the same millisecond; one has reported
\* success, the other is still waiting for the answer to its sales insert
C1_Witness ==
    \E u \in Users, v \in Users :
        /\ u # v
        /\ ReportedSuccess(u)
        /\ sess[v].pc = "insertSale"
        /\ sess[v].h.receiptNumber = sess[u].h.receiptNumber

\* C2: no rollback.  No step removes or changes a row of sales, sale_items or
\* payments; and the step in which the sale_items insert or the payments
\* insert of a checkout fails writes nothing, leaves the sale row (status
\* 'completed') and, for a failed payment, the sale's items in place, and ends
\* the checkout with the toast 'Failed to complete sale'.
C2_FailStep(u) ==
    (sess[u].pc \in {"insertItems", "insertPayment"} /\ sess'[u].pc = "idle") =>
        /\ sales' = sales /\ sale_items' = sale_items /\ payments' = payments
        /\ products' = products
        /\ sess'[u].toast = "Failed to complete sale"
        /\ ~sess'[u].loading
        /\ \E r \in sales' : r.id = sess[u].h.saleId /\ r.status = "completed"
        /\ sess[u].pc = "insertPayment" => SaleItemRows(sess[u].h) \subseteq sale_items'
        /\ \A pm \in payments' : pm.sale_id # sess[u].h.saleId

C2_NoRollback ==
    [][/\ sales \subseteq sales'
       /\ sale_items \subseteq sale_items'
       /\ payments \subseteq payments'
       /\ \A u \in Users : C2_FailStep(u)]_vars

\* C2 witness: a checkout has ended with 'Failed to complete sale' after its
\* payment insert failed: its sale and the sale's items are stored, no payment
C2_Witness ==
    \E u \in Users, r \in sales :
        /\ sess[u].pc = "idle"
        /\ sess[u].toast = "Failed to complete sale"
        /\ r.cashier_id = u /\ r.status = "completed"
        /\ \E si \in sale_items : si.sale_id = r.id
        /\ \A pm \in payments : pm.sale_id # r.id

\* C3: the stock a checkout writes is the stock the cart item captured when
\* it was added, less the cart quantity, whatever the table holds by then:
\* every step that changes a stock_quantity is the stock update of some
\* checkout for its current cart item and stores exactly that value.
C3_StockWrittenFromCart ==
    [][\A id \in DOMAIN products :
         products'[id].stock_quantity # products[id].stock_quantity =>
           \E u \in Users :
              /\ sess[u].pc = "updateStock"
              /\ sess'[u].h.i = sess[u].h.i + 1
              /\ sess[u].h.cart[sess[u].h.i].id = id
              /\ products'[id].stock_quantity =
                   sess[u].h.cart[sess[u].h.i].stock_quantity
                     - sess[u].h.cart[sess[u].h.i].quantity]_vars

\* C3 witness: a lost update between two clients with product-update rights.
\* Two managers sold different quantities of p1 from the same starting
\* stock.  The checkout of v is over: its sale, item and payment are stored
\* and its refresh read the stock its own update had written.  The checkout
\* of u has then reported success: its sale and payment are stored as well,
\* and the stock is the starting stock less the quantity of u alone.
C3_Witness ==
    \E u \in Users, v \in Users :
        /\ u # v
        /\ IsManagerOrAdmin(u) /\ IsManagerOrAdmin(v)
        /\ ReportedSuccess(u)
        /\ Len(sess[u].h.cart) = 1 /\ sess[u].h.cart[1].id = "p1"
        /\ sess[v].pc = "idle" /\ sess[v].toast = "Sale completed!"
        /\ Cardinality(sales) = 2 /\ Cardinality(payments) = 2
        /\ \E r \in sales, si \in sale_items :
             /\ r.cashier_id = v /\ si.sale_id = r.id /\ si.product_id = "p1"
             /\ si.quantity # sess[u].h.cart[1].quantity
             /\ sess[v].products["p1"].stock_quantity =
                  sess[u].h.cart[1].stock_quantity - si.quantity
             /\ products["p1"].stock_quantity =
                  sess[u].h.cart[1].stock_quantity - sess[u].h.cart[1].quantity
             /\ products["p1"].stock_quantity #
                  sess[u].h.cart[1].stock_quantity - sess[u].h.cart[1].quantity
                    - si.quantity

\* C5: no partial payments.  A checkout that has reported success has exactly
\* one payments row for its sale, with the chosen method and the sale's
\* total_amount; a sale never has more than one payment, and a sale without
\* sale_items (its items insert failed) has none.
C5_OnePaymentInFull ==
    /\ \A u \in Users :
         ReportedSuccess(u) =>
           \E pm \in payments, r \in sales :
              /\ r.id = sess[u].h.saleId
              /\ pm.sale_id = r.id
              /\ pm.payment_method = sess[u].h.method
              /\ pm.amount = r.total_amount
              /\ \A other \in payments : other.sale_id = r.id => other = pm
    /\ \A pm \in payments :
         /\ \E si \in sale_items : si.sale_id = pm.sale_id
         /\ \A other \in payments : other.sale_id = pm.sale_id => other = pm

\* C5 witness: a checkout paid by M-Pesa has reported success while the sale
\* of the other screen, whose items insert failed, has no payment
C5_Witness ==
    \E u \in Users, r \in sales :
        /\ ReportedSuccess(u) /\ sess[u].h.method = "mpesa"
        /\ r.cashier_id # u
        /\ \A si \in sale_items : si.sale_id # r.id
        /\ \A pm \in payments : pm.sale_id # r.id
        /\ sess[r.cashier_id].toast = "Failed to complete sale"

\* what C4 expects of a cart: the sum of the line totals, and the sum over
\* the lines of line_total * vat_rate / (100 + vat_rate), brought to the
\* common denominator D = product of the (100 + vat_rate)
ExpectedSubtotal(cart) ==
    LET f[i \in 0..Len(cart)] == IF i = 0 THEN 0 ELSE f[i - 1] + cart[i].line_total
    IN  f[Len(cart)]

ExpectedVat(cart) ==
    LET d[i \in 0..Len(cart)] == IF i = 0 THEN 1 ELSE d[i - 1] * (100 + cart[i].vat_rate)
        D == d[Len(cart)]
        n[i \in 0..Len(cart)] ==
            IF i = 0 THEN 0
            ELSE n[i - 1] + cart[i].line_total * cart[i].vat_rate
                              * (D \div (100 + cart[i].vat_rate))
    IN  Norm(<<n[Len(cart)], D>>)

TotalsAsClaimed(cart, subtotal, vatAmount, total) ==
    /\ subtotal = ExpectedSubtotal(cart)
    /\ total = subtotal
    /\ vatAmount = ExpectedVat(cart)
    /\ vatAmount[2] > 0 /\ vatAmount[1] >= 0
    /\ vatAmount[1] <= total * vatAmount[2]

\* C4: VAT per line from the line's own rate.  For the cart on the screen and
\* for the cart of a checkout in flight, calculateTotals gives subtotal = sum
\* of line_total, total = subtotal and vatAmount = sum of line_total *
\* vat_rate / (100 + vat_rate), with 0 <= vatAmount <= total; and the sales row
\* of the checkout holds these values (vat_amount as the DECIMAL(10,2) column
\* keeps it: rounded to the cent).
C4_TotalsPerLine ==
    \A u \in Users :
        /\ TotalsAsClaimed(sess[u].cart,
                           calculateTotals(sess[u].cart).subtotal,
                           calculateTotals(sess[u].cart).vatAmount,
                           calculateTotals(sess[u].cart).total)
        /\ sess[u].pc # "idle" =>
             TotalsAsClaimed(sess[u].h.cart, sess[u].h.subtotal,
                             sess[u].h.vatAmount, sess[u].h.total)
        /\ SaleInserted(u) =>
             \E r \in sales :
                /\ r.id = sess[u].h.saleId
                /\ r.subtotal = ExpectedSubtotal(sess[u].h.cart)
                /\ r.total_amount = r.subtotal
                /\ r.vat_amount = RoundCents(ExpectedVat(sess[u].h.cart))

\* C4 witness: the sale of a cart with two lines at different, non-zero
\* rates, one of them with quantity 2, has been inserted
C4_Witness ==
    \E u \in Users :
        /\ sess[u].pc = "insertItems"
        /\ Len(sess[u].h.cart) = 2
        /\ sess[u].h.cart[1].vat_rate = 16 /\ sess[u].h.cart[2].vat_rate = 8
        /\ sess[u].h.cart[1].quantity = 2
        /\ \E r \in sales : r.id = sess[u].h.saleId /\ r.vat_amount > 0

\* the profile of user u is the one the sign-up of u made
ProfileFromSignUp(u) ==
    /\ u \in DOMAIN profiles
    /\ profiles[u].full_name =
         IF auth_users[u].raw_user_meta_data.full_name # NULL
         THEN auth_users[u].raw_user_meta_data.full_name ELSE "User"

\* the screen of u has written nothing and holds nothing to sell
NothingSold(u) ==
    /\ sess[u].storeId = NULL
    /\ sess[u].products = <<>>
    /\ sess[u].cart = <<>>
    /\ sess[u].pc = "idle"
    /\ \A r \in sales : r.cashier_id # u

\* C10 as amended: every signed-up user has one profile, with the full_name
\* of the sign-up metadata or 'User', and the sign-up leaves its store_id
\* null; while the store_id is null the POS screen of the user loads no store
\* and no product and the cart stays empty, so that a handleCheckout of the
\* user ends at its first guard with 'Cart is empty'; the pay buttons are
\* disabled, no toast is raised and nothing is written.
C10_ProfileOnSignUp ==
    [][/\ DOMAIN profiles' = DOMAIN auth_users'
       /\ \A u \in DOMAIN auth_users' :
            /\ ProfileFromSignUp(u)'
            /\ u \notin DOMAIN auth_users => profiles'[u].store_id = NULL
            /\ profiles'[u].store_id = NULL =>
                 /\ NothingSold(u)'
                 /\ handleCheckoutRefusal(sess'[u].cart, sess'[u].storeId)
                      = "Cart is empty"
                 /\ PayDisabled(sess'[u])
                 /\ sess'[u].toast = NULL
                 /\ dbvars' = dbvars \/ sess' = sess]_vars

\* C10 witness: a user who signed up with a name and has no store yet has
\* the POS screen open, its effect done
C10_Witness ==
    \E u \in DOMAIN auth_users :
        /\ auth_users[u].raw_user_meta_data.full_name # NULL
        /\ profiles[u].full_name = auth_users[u].raw_user_meta_data.full_name
        /\ profiles[u].store_id = NULL
        /\ sess[u].fetch = "done"
        /\ handleCheckoutRefusal(sess[u].cart, sess[u].storeId) = "Cart is empty"

\* C10 as stated: ... until a store is assigned, every handleCheckout of the
\* user ends with 'Store not configured' and writes nothing.
C10_Original ==
    /\ DOMAIN profiles = DOMAIN auth_users
    /\ \A u \in DOMAIN auth_users :
         /\ ProfileFromSignUp(u)
         /\ profiles[u].store_id = NULL =>
              /\ \A r \in sales : r.cashier_id # u
              /\ sess[u].pc = "idle"
              /\ handleCheckoutRefusal(sess[u].cart, sess[u].storeId)
                   = "Store not configured"

\* the store of uid's profile equals store_id
SameStore(uid, store_id) ==
    uid \in DOMAIN profiles /\ profiles[uid].store_id = store_id

\* the products rows the step has inserted, changed or removed
ProductsTouched ==
    {products[id] : id \in {i \in DOMAIN products :
                              i \notin DOMAIN products' \/ products'[i] # products[i]}}
      \cup {products'[id] : id \in DOMAIN products' \ DOMAIN products}

\* C6 as stated: a user who is neither admin nor manager reads a products row
\* only when it is of the store of the user's profile and never inserts,
\* updates or deletes one; and a user modifies a product only if it belongs
\* to the user's own store.
C6_Original ==
    [][/\ (api'.op = "SELECT" /\ api'.table = "products"
             /\ ~IsManagerOrAdmin(api'.uid)) =>
            \A row \in api'.rows : SameStore(api'.uid, row.store_id)
       /\ products' # products => IsManagerOrAdmin(api'.uid)
       /\ \A row \in ProductsTouched : SameStore(api'.uid, row.store_id)]_vars

\* C6, the part that holds: reads of users without the admin or manager role
\* stay in their store, and only admins and managers write products
C6_ReadsAndWritesByRole ==
    [][/\ (api'.op = "SELECT" /\ api'.table = "products"
             /\ ~IsManagerOrAdmin(api'.uid)) =>
            \A row \in api'.rows : SameStore(api'.uid, row.store_id)
       /\ products' # products => IsManagerOrAdmin(api'.uid)]_vars

\* C6 witness: a manager whose profile is of store s1 has deleted product p2
\* of store s2
C6_Witness ==
    /\ api.op = "DELETE" /\ api.table = "products" /\ api.changed
    /\ api.uid \in Users
    /\ RolesOf(api.uid) = {"manager"}
    /\ profiles[api.uid].store_id = "s1"
    /\ "p2" \notin DOMAIN products

\* C7 as stated: a signed-in user reads a customers row only when the row is
\* of the store of the user's profile.
C7_Original ==
    (api.op = "SELECT" /\ api.table = "customers" /\ api.uid # NULL) =>
        \A row \in api.rows : SameStore(api.uid, row.store_id)

\* C7 witness: a user of store s1 without any role has read the customer of
\* store s2
C7_Witness ==
    /\ api.op = "SELECT" /\ api.table = "customers"
    /\ api.uid \in Users
    /\ RolesOf(api.uid) = {}
    /\ profiles[api.uid].store_id = "s1"
    /\ \E row \in api.rows : row.store_id = "s2"

\* C8: a step that changes a stored sales row is an UPDATE asked by a user
\* holding the admin or the manager role at that moment (so never by a
\* cashier or a user without a role), and no step removes a sales row.
C8_OnlyManagersChangeSales ==
    [][\A r \in sales :
         /\ \E r2 \in sales' : r2.id = r.id
         /\ r \notin sales' =>
              /\ api'.op = "UPDATE" /\ api'.table = "sales"
              /\ IsManagerOrAdmin(api'.uid)]_vars

\* C8 witness: a user holding only the cashier role has inserted a sale
C8_Witness ==
    /\ api.op = "INSERT" /\ api.table = "sales" /\ api.changed
    /\ api.uid \in Users
    /\ RolesOf(api.uid) = {"cashier"}
    /\ \E r \in sales : r.status = "completed"

\* C9: a step that inserts, updates or deletes a user_roles row is asked by
\* a user who holds the admin role at that moment; a user without the admin
\* role reads only the user_roles rows about that user.
C9_OnlyAdminsManageRoles ==
    [][/\ user_roles' # user_roles => has_role(api'.uid, "admin")
       /\ (api'.op = "SELECT" /\ api'.table = "user_roles"
             /\ ~has_role(api'.uid, "admin")) =>
            \A row \in api'.rows : row.user_id = api'.uid]_vars

\* C9 witness: a manager asked for the admin role and the table has not
\* changed, while the other user holds no role
C9_Witness ==
    /\ api.op = "INSERT" /\ api.table = "user_roles" /\ ~api.changed
    /\ api.uid \in Users
    /\ RolesOf(api.uid) = {"manager"}
    /\ \A u \in Users \ {api.uid} : RolesOf(u) = {}

\* the rows a checkout in flight has written under its sale id
ItemsOfSale(id) == {si \in sale_items : si.sale_id = id}
PaymentsOfSale(id) == {pm \in payments : pm.sale_id = id}

\* what the database holds for the checkout of u at each of its awaits
C11_Gate(u) ==
    LET h == sess[u].h
        saleStored == \E r \in sales : /\ r.id = h.saleId
                                       /\ r.cashier_id = u
                                       /\ r.receipt_number = h.receiptNumber
        itemsStored == /\ ItemsOfSale(h.saleId) = SaleItemRows(h)
                       /\ Cardinality(ItemsOfSale(h.saleId)) = Len(h.cart)
                       /\ \A i \in 1..Len(h.cart) :
                            \E si \in ItemsOfSale(h.saleId) :
                               /\ si.product_id = h.cart[i].id
                               /\ si.quantity = h.cart[i].quantity
    IN  /\ sess[u].pc = "insertSale" => h.saleId = 0
        /\ sess[u].pc = "insertItems" =>
             saleStored /\ ItemsOfSale(h.saleId) = {} /\ PaymentsOfSale(h.saleId) = {}
        /\ sess[u].pc = "insertPayment" =>
             saleStored /\ itemsStored /\ PaymentsOfSale(h.saleId) = {}
        /\ sess[u].pc \in {"updateStock", "refresh"} =>
             saleStored /\ itemsStored /\ Cardinality(PaymentsOfSale(h.saleId)) = 1

\* the step is a step of the handler of u: the answer to its request
Answered(u) ==
    \/ sess'[u].pc # sess[u].pc
    \/ sess'[u].h.i # sess[u].h.i

\* the write of one step, and what the handler of u does after its answer
C11_Step(u) ==
    LET h == sess[u].h
    IN  /\ ~Answered(u) => dbvars' = dbvars
        /\ (Answered(u) /\ sess[u].pc = "insertSale") =>
             /\ sale_items' = sale_items /\ payments' = payments
             /\ products' = products
             /\ sales' # sales <=> sess'[u].pc = "insertItems"
             /\ sales' = sales <=> sess'[u].pc = "idle"
        /\ (Answered(u) /\ sess[u].pc = "insertItems") =>
             /\ sales' = sales /\ payments' = payments /\ products' = products
             /\ sale_items' # sale_items <=> sess'[u].pc = "insertPayment"
             /\ sale_items' = sale_items <=> sess'[u].pc = "idle"
             /\ sale_items' \in {sale_items, sale_items \cup SaleItemRows(h)}
        /\ (Answered(u) /\ sess[u].pc = "insertPayment") =>
             /\ sales' = sales /\ sale_items' = sale_items /\ products' = products
             /\ payments' # payments <=> sess'[u].pc = "updateStock"
             /\ payments' = payments <=> sess'[u].pc = "idle"
        /\ (Answered(u) /\ sess[u].pc = "updateStock") =>
             /\ sales' = sales /\ sale_items' = sale_items /\ payments' = payments
             /\ sess'[u].pc \in {"updateStock", "refresh"}
        /\ (Answered(u) /\ sess[u].pc \in {"idle", "refresh"}) => dbvars' = dbvars

\* C11: the writes of a checkout come in the order sales, sale_items,
\* payments, product stock, each only after the one before it succeeded.
\* Every step that writes a table is the answer to the request the handler
\* is waiting for; a failed insert ends the handler and nothing is written
\* after it; the items go in with one insert, one row per cart item under the
\* id of the sale just stored; and at each await the database holds all the
\* rows of the earlier steps and none of the later ones.
C11_WritesInOrder ==
    [][/\ C11_Step("u1")
       /\ C11_Gate("u1")'
       /\ sess'["u2"] = sess["u2"]]_vars

\* C11 witness: a manager's checkout of a cart of two lines is in its stock
\* loop: the sale, both items and the payment are stored and the stock of
\* the first line has been written
C11_Witness ==
    /\ sess["u1"].pc = "updateStock"
    /\ sess["u1"].h.i = 2
    /\ Len(sess["u1"].h.cart) = 2
    /\ Cardinality(ItemsOfSale(sess["u1"].h.saleId)) = 2
    /\ Cardinality(PaymentsOfSale(sess["u1"].h.saleId)) = 1
    /\ products[sess["u1"].h.cart[1].id].stock_quantity =
         NewStock(sess["u1"].h.cart[1])
    /\ products[sess["u1"].h.cart[1].id].stock_quantity #
         sess["u1"].products[sess["u1"].h.cart[1].id].stock_quantity

\* C12 as stated: whenever a checkout has reported success, the stored
\* stock_quantity of every product of its cart is the cart item's
\* stock_quantity less its quantity, whatever the role of the user and
\* whatever became of the single update requests.
C12_Original ==
    \A u \in Users :
        ReportedSuccess(u) =>
          \A i \in 1..Len(sess[u].h.cart) :
             products[sess[u].h.cart[i].id].stock_quantity =
               NewStock(sess[u].h.cart[i])

\* C12 witness: a user holding only the cashier role has been told 'Sale
\* completed!' and the cart is cleared; the sale, its items and its payment
\* are stored, and the stock of the product sold is what it was when loaded
C12_Witness ==
    \E u \in DOMAIN auth_users :
        /\ RolesOf(u) = {"cashier"}
        /\ ReportedSuccess(u)
        /\ sess[u].toast = "Sale completed!"
        /\ sess[u].cart = <<>>
        /\ ItemsOfSale(sess[u].h.saleId) = SaleItemRows(sess[u].h)
        /\ Cardinality(PaymentsOfSale(sess[u].h.saleId)) = 1
        /\ \E i \in 1..Len(sess[u].h.cart) :
             /\ sess[u].h.cart[i].quantity > 0
             /\ products[sess[u].h.cart[i].id].stock_quantity =
                  sess[u].h.cart[i].stock_quantity
             /\ products[sess[u].h.cart[i].id].stock_quantity #
                  NewStock(sess[u].h.cart[i])

\* C13 as stated: the cart never holds more of a product than is in stock.
\* After any sequence of clicks on the product buttons and on the plus,
\* minus and trash buttons of the cart, every cart item has quantity <=
\* stock_quantity, the stock of the product as it was loaded and copied into
\* the item.
C13_Original ==
    \A u \in Users :
        \A i \in 1..Len(sess[u].cart) :
           sess[u].cart[i].quantity <= sess[u].cart[i].stock_quantity

\* C13 witness: the plus button has taken a cart item above the stock of its
\* product, as the item holds it and as the screen shows it, and no toast
\* was raised
C13_Witness ==
    \E u \in Users :
        \E i \in 1..Len(sess[u].cart) :
           /\ sess[u].cart[i].id \in DOMAIN sess[u].products
           /\ sess[u].cart[i].stock_quantity =
                sess[u].products[sess[u].cart[i].id].stock_quantity
           /\ sess[u].cart[i].quantity = sess[u].cart[i].stock_quantity + 1
           /\ sess[u].cart[i].line_total =
                sess[u].cart[i].selling_price * sess[u].cart[i].quantity
           /\ sess[u].toast = NULL
           /\ sess[u].pc = "idle"

====
